---- MODULE Spec2Model ----
(***************************************************************************)
(* A model of gmail_discord_sync.py: one polling run of main() (load the   *)
(* config, authenticate, read the watermark, list and fetch the new mail,  *)
(* route every mail to its webhooks, write the watermark), together with   *)
(* the pure helpers the run is built from.                                 *)
(*                                                                         *)
(* Text is a sequence of one-character strings; decoded body text is a     *)
(* sequence of code points.  A Python dict is a record whose keys may be   *)
(* missing: d.get(k) and "k in d" become tests on DOMAIN d.                *)
(***************************************************************************)
EXTENDS Integers, Sequences, FiniteSets, TLC

\* ------------------------------------------------------------------ bounds
MaxDataLen == 2     \* data characters of a body's base64 text (before its padding)
MaxParts == 2       \* MIME parts of a message
MaxStrLen == 2      \* length of a generated subject or keyword
MaxRules == 2       \* keyword rules of a generated routing config
MaxMsgs == 2        \* messages in the mailbox at the start of a run
MaxClock == 4       \* last instant of the wall clock
MaxArrivals == 2    \* messages arriving while the job is scheduled
MaxRuns == 2        \* scheduled runs in a row

\* --------------------------------------------------------------- constants
BodyLimit == 500          \* parse_email: len(body) > 500
SnippetLimit == 300       \* send_to_discord: email['snippet'][:300]
MaxResults == 50          \* get_new_emails: maxResults=50
LookbackSeconds == 86400  \* get_last_check_time: timedelta(hours=24)
StatusNoContent == 204    \* send_to_discord: response.status_code == 204

\* ------------------------------------------------------------ text helpers
Has(d, k) == k \in DOMAIN d

Get(d, k, default) == IF k \in DOMAIN d THEN d[k] ELSE default

Min(a, b) == IF a < b THEN a ELSE b

Take(s, n) == SubSeq(s, 1, Min(n, Len(s)))

\* All sequences over alphabet A of length at most n.
Strs(A, n) == UNION {[1..m -> A] : m \in 0..n}

UpperChars == <<"A","B","C","D","E","F","G","H","I","J","K","L","M",
                "N","O","P","Q","R","S","T","U","V","W","X","Y","Z">>

LowerChars == <<"a","b","c","d","e","f","g","h","i","j","k","l","m",
                "n","o","p","q","r","s","t","u","v","w","x","y","z">>

\* str.lower() on one character (ASCII letters; every other one is kept).
LowerChar(c) ==
    IF \E n \in 1..26 : UpperChars[n] = c
    THEN LowerChars[CHOOSE n \in 1..26 : UpperChars[n] = c]
    ELSE c

\* str.lower()
Lower(s) == [n \in 1..Len(s) |-> LowerChar(s[n])]

\* Python's "needle in hay" for strings.
Contains(hay, needle) ==
    \E p \in 0..(Len(hay) - Len(needle)) :
        \A q \in 1..Len(needle) : hay[p + q] = needle[q]

\* ----------------------------------------------------------------- base64
\* The URL-safe base64 alphabet, in value order (value = position - 1).
B64Alphabet == <<"A","B","C","D","E","F","G","H","I","J","K","L","M",
                 "N","O","P","Q","R","S","T","U","V","W","X","Y","Z",
                 "a","b","c","d","e","f","g","h","i","j","k","l","m",
                 "n","o","p","q","r","s","t","u","v","w","x","y","z",
                 "0","1","2","3","4","5","6","7","8","9","-","_">>

IsB64Char(c) == \E n \in 1..64 : B64Alphabet[n] = c

B64Val(c) == (CHOOSE n \in 1..64 : B64Alphabet[n] = c) - 1

\* binascii.a2b_base64 (not strict) as base64.urlsafe_b64decode calls it: the
\* scan keeps the position in the current quad, the bits left over and the
\* padding seen; characters outside the alphabet are skipped.
RECURSIVE B64Scan(_, _, _, _, _, _)
B64Scan(s, n, quad, left, pads, out) ==
    IF n > Len(s)
    THEN IF quad = 0 THEN [ok |-> TRUE, bytes |-> out]
                     ELSE [ok |-> FALSE, bytes |-> <<>>]
    ELSE LET c == s[n] IN
         IF c = "="
         THEN IF quad >= 2 /\ quad + pads + 1 >= 4
              THEN [ok |-> TRUE, bytes |-> out]
              ELSE B64Scan(s, n + 1, quad, left,
                           IF quad >= 2 THEN pads + 1 ELSE pads, out)
         ELSE IF ~IsB64Char(c)
         THEN B64Scan(s, n + 1, quad, left, pads, out)
         ELSE LET v == B64Val(c) IN
              CASE quad = 0 -> B64Scan(s, n + 1, 1, v, 0, out)
                [] quad = 1 -> B64Scan(s, n + 1, 2, v % 16, 0,
                                       Append(out, left * 4 + v \div 16))
                [] quad = 2 -> B64Scan(s, n + 1, 3, v % 4, 0,
                                       Append(out, left * 16 + v \div 4))
                [] OTHER    -> B64Scan(s, n + 1, 0, 0, 0,
                                       Append(out, left * 64 + v))

urlsafe_b64decode(s) == B64Scan(s, 1, 0, 0, 0, <<>>)

\* ------------------------------------------------------------------ UTF-8
IsCont(b) == b >= 128 /\ b <= 191

\* bytes.decode('utf-8'), strict: the code points, or the failure.
RECURSIVE Utf8Scan(_, _, _)
Utf8Scan(b, n, out) ==
    IF n > Len(b) THEN [ok |-> TRUE, text |-> out]
    ELSE LET b1 == b[n]
             left == Len(b) - n
         IN
         CASE b1 < 128 -> Utf8Scan(b, n + 1, Append(out, b1))
           [] b1 >= 194 /\ b1 <= 223 ->
                IF left >= 1 /\ IsCont(b[n + 1])
                THEN Utf8Scan(b, n + 2,
                              Append(out, (b1 - 192) * 64 + (b[n + 1] - 128)))
                ELSE [ok |-> FALSE, text |-> <<>>]
           [] b1 >= 224 /\ b1 <= 239 ->
                IF /\ left >= 2
                   /\ IsCont(b[n + 1])
                   /\ IsCont(b[n + 2])
                   /\ (b1 = 224 => b[n + 1] >= 160)
                   /\ (b1 = 237 => b[n + 1] <= 159)
                THEN Utf8Scan(b, n + 3,
                              Append(out, (b1 - 224) * 4096
                                          + (b[n + 1] - 128) * 64
                                          + (b[n + 2] - 128)))
                ELSE [ok |-> FALSE, text |-> <<>>]
           [] b1 >= 240 /\ b1 <= 244 ->
                IF /\ left >= 3
                   /\ IsCont(b[n + 1])
                   /\ IsCont(b[n + 2])
                   /\ IsCont(b[n + 3])
                   /\ (b1 = 240 => b[n + 1] >= 144)
                   /\ (b1 = 244 => b[n + 1] <= 143)
                THEN Utf8Scan(b, n + 4,
                              Append(out, (b1 - 240) * 262144
                                          + (b[n + 1] - 128) * 4096
                                          + (b[n + 2] - 128) * 64
                                          + (b[n + 3] - 128)))
                ELSE [ok |-> FALSE, text |-> <<>>]
           [] OTHER -> [ok |-> FALSE, text |-> <<>>]

utf8_decode(b) == Utf8Scan(b, 1, <<>>)

\* base64.urlsafe_b64decode(data).decode('utf-8'): the text, or the exception.
DecodeBody(data) ==
    LET raw == urlsafe_b64decode(data) IN
    IF ~raw.ok THEN [status |-> "binascii.Error", text |-> <<>>]
    ELSE LET txt == utf8_decode(raw.bytes) IN
         IF ~txt.ok THEN [status |-> "UnicodeDecodeError", text |-> <<>>]
         ELSE [status |-> "ok", text |-> txt.text]

\* ------------------------------------------------------------ parse_email
NoSubject == <<"(","N","o"," ","S","u","b","j","e","c","t",")">>

UnknownSender == <<"U","n","k","n","o","w","n">>

Ellipsis == <<46, 46, 46>>

\* {h['name']: h['value'] for h in headers}: a later header of a name wins.
HeaderValue(headers, name, default) ==
    IF \E n \in 1..Len(headers) : headers[n].name = name
    THEN headers[CHOOSE n \in 1..Len(headers) :
                    /\ headers[n].name = name
                    /\ \A m \in (n + 1)..Len(headers) : headers[m].name # name].value
    ELSE default

\* The loop over message['payload']['parts']: the first text/plain part with
\* body data is decoded and ends the loop; a part without 'mimeType', or a
\* text/plain part without 'body', is a KeyError.
RECURSIVE ScanParts(_, _)
ScanParts(parts, n) ==
    IF n > Len(parts) THEN [status |-> "ok", text |-> <<>>]
    ELSE LET part == parts[n] IN
         IF ~Has(part, "mimeType") THEN [status |-> "KeyError", text |-> <<>>]
         ELSE IF part.mimeType # "text/plain" THEN ScanParts(parts, n + 1)
         ELSE IF ~Has(part, "body") THEN [status |-> "KeyError", text |-> <<>>]
         ELSE IF Has(part.body, "data") THEN DecodeBody(part.body.data)
         ELSE ScanParts(parts, n + 1)

ExtractBody(payload) ==
    IF Has(payload, "parts") THEN ScanParts(payload.parts, 1)
    ELSE IF Has(payload, "body") /\ Has(payload.body, "data")
    THEN DecodeBody(payload.body.data)
    ELSE [status |-> "ok", text |-> <<>>]

Truncate(body) ==
    IF Len(body) > BodyLimit THEN SubSeq(body, 1, BodyLimit) \o Ellipsis ELSE body

parse_email(message) ==
    IF ~Has(message, "payload") \/ ~Has(message.payload, "headers")
    THEN [status |-> "KeyError"]
    ELSE LET headers == message.payload.headers
             body == ExtractBody(message.payload)
         IN
         IF body.status # "ok" THEN [status |-> body.status]
         ELSE [status  |-> "ok",
               id      |-> message.id,
               subject |-> HeaderValue(headers, "Subject", NoSubject),
               from    |-> HeaderValue(headers, "From", UnknownSender),
               date    |-> HeaderValue(headers, "Date", <<>>),
               body    |-> Truncate(body.text),
               snippet |-> Get(message, "snippet", <<>>)]

\* ------------------------------------------------- extract_email_address
\* re.search(r'<(.+?)>', from_field): a "<", then at least one character that
\* is no line break, as few as possible, then a ">".
AngleMatch(s, p, q) ==
    /\ s[p] = "<"
    /\ q >= p + 2
    /\ s[q] = ">"
    /\ \A r \in (p + 1)..(q - 1) : s[r] # "\n"

extract_email_address(from_field) ==
    LET starts == {p \in 1..Len(from_field) :
                      \E q \in 1..Len(from_field) : AngleMatch(from_field, p, q)}
    IN
    IF starts = {} THEN from_field
    ELSE LET p == CHOOSE x \in starts : \A y \in starts : x <= y
             q == CHOOSE x \in 1..Len(from_field) :
                     /\ AngleMatch(from_field, p, x)
                     /\ \A y \in 1..(x - 1) : ~AngleMatch(from_field, p, y)
         IN SubSeq(from_field, p + 1, q - 1)

\* --------------------------------------------------------- match_keywords
\* One turn of the keyword loop: the lower-cased keyword is a substring of
\* the lower-cased subject or of the lower-cased sender address.
KeywordHits(keyword, subject, from_email) ==
    LET keyword_lower == Lower(keyword) IN
    Contains(subject, keyword_lower) \/ Contains(from_email, keyword_lower)

match_keywords(email, keyword_config) ==
    LET subject == Lower(email.subject)
        from_email == Lower(extract_email_address(email.from))
    IN
    \E n \in 1..Len(keyword_config.keywords) :
        KeywordHits(keyword_config.keywords[n], subject, from_email)

\* -------------------------------------------------------- get_color_value
DefaultColor == <<"d","e","f","a","u","l","t">>

COLORS ==
    {[name |-> <<"r","e","d">>,                 value |-> 16711680],
     [name |-> <<"g","r","e","e","n">>,         value |-> 65280],
     [name |-> <<"b","l","u","e">>,             value |-> 39423],
     [name |-> <<"y","e","l","l","o","w">>,     value |-> 16776960],
     [name |-> <<"p","u","r","p","l","e">>,     value |-> 10181046],
     [name |-> <<"o","r","a","n","g","e">>,     value |-> 16750848],
     [name |-> <<"p","i","n","k">>,             value |-> 16738740],
     [name |-> <<"t","e","a","l">>,             value |-> 1752220],
     [name |-> DefaultColor,                    value |-> 7506394]}

ColorOf(name) == (CHOOSE c \in COLORS : c.name = name).value

HexDigits == <<"0","1","2","3","4","5","6","7","8","9","a","b","c","d","e","f">>

IsHexDigit(c) == \E n \in 1..16 : HexDigits[n] = LowerChar(c)

HexVal(c) == (CHOOSE n \in 1..16 : HexDigits[n] = LowerChar(c)) - 1

RECURSIVE HexNum(_, _)
HexNum(s, n) == IF n = 0 THEN 0 ELSE HexNum(s, n - 1) * 16 + HexVal(s[n])

\* int(text, 16) on plain hex digits; no digit at all, or any other character
\* of the model's alphabets, is a ValueError.
ParseHex(s) ==
    IF Len(s) > 0 /\ \A n \in 1..Len(s) : IsHexDigit(s[n])
    THEN [status |-> "ok", value |-> HexNum(s, Len(s))]
    ELSE [status |-> "ValueError", value |-> 0]

\* A color is [kind |-> "int", val |-> n] or [kind |-> "str", chars |-> s].
get_color_value(color) ==
    IF color.kind = "int" THEN [status |-> "ok", value |-> color.val]
    ELSE IF Len(color.chars) > 0 /\ color.chars[1] = "#"
    THEN ParseHex(SubSeq(color.chars, 2, Len(color.chars)))
    ELSE IF \E c \in COLORS : c.name = Lower(color.chars)
    THEN [status |-> "ok", value |-> ColorOf(Lower(color.chars))]
    ELSE [status |-> "ok", value |-> ColorOf(DefaultColor)]

\* ------------------------------------------------------ get_gmail_service
\* A credential source is [state |-> "absent" | "malformed" | "creds", token,
\* expired, refresh_token]; creds.valid is "has a token and is not expired".
Valid(c) == c.token /\ ~c.expired

FreshCreds == [state |-> "creds", token |-> TRUE, expired |-> FALSE,
               refresh_token |-> TRUE]

AuthResult(outcome, error, source, refreshed, flow, written, file) ==
    [outcome |-> outcome, error |-> error, source |-> source,
     refreshed |-> refreshed, flow |-> flow, written |-> written,
     tokenFile |-> file]

\* Which source the if / elif of lines 55-60 reads.
SelectSource(env, tokenFile) ==
    IF env.state # "absent" THEN "env"
    ELSE IF tokenFile.state # "absent" THEN "file"
    ELSE "none"

\* The branch of lines 63-72 taken for the loaded credential.
AuthPathMutant(have, creds) ==
    IF have /\ Valid(creds) THEN "use" ELSE "interactive"

AuthPath(have, creds) ==
    IF have /\ Valid(creds) THEN "use"
    ELSE IF have /\ creds.expired /\ creds.refresh_token THEN "refresh"
    ELSE "interactive"

\* refreshOK and flowOK are what the token endpoint and the browser flow
\* answer, should the function come to ask them.
get_gmail_service(env, tokenFile, secret, refreshOK, flowOK) ==
    LET source == SelectSource(env, tokenFile)
        slot == IF source = "env" THEN env ELSE tokenFile
        have == source # "none"
        path == AuthPath(have, slot)
    IN
    IF have /\ slot.state = "malformed"
    THEN AuthResult("raise", "ValueError", source, FALSE, FALSE, FALSE, tokenFile)
    ELSE CASE path = "use" ->
                AuthResult("ok", "", source, FALSE, FALSE, FALSE, tokenFile)
           [] path = "refresh" ->
                IF refreshOK
                THEN AuthResult("ok", "", source, TRUE, FALSE, TRUE,
                                [slot EXCEPT !.token = TRUE, !.expired = FALSE])
                ELSE AuthResult("raise", "RefreshError", source, TRUE, FALSE,
                                FALSE, tokenFile)
           [] OTHER ->
                IF ~secret
                THEN AuthResult("raise", "FileNotFoundError", source, FALSE,
                                FALSE, FALSE, tokenFile)
                ELSE IF flowOK
                THEN AuthResult("ok", "", source, FALSE, TRUE, TRUE, FreshCreds)
                ELSE AuthResult("raise", "FlowError", source, FALSE, TRUE,
                                FALSE, tokenFile)

\* ------------------------------------------------------------------ state
VARIABLES
    pc,             \* where main() stands
    error,          \* the exception in flight inside main's try block
    raised,         \* the exception main() re-raised to the process boundary
    clock,          \* datetime.now(), in seconds
    net,            \* "unreliable": remote calls may fail; "reliable": none does
    run,            \* number of the current scheduled run
    configFile,     \* config.json
    credEnv,        \* the GMAIL_CREDENTIALS environment variable
    tokenFile,      \* token.json
    secretFile,     \* whether credentials.json exists
    watermarkFile,  \* last_check.txt
    watermark0,     \* last_check.txt as the run found it (history)
    mailbox,        \* the provider's messages: [id, received, raw]
    config,         \* main: config
    auth,           \* main: what get_gmail_service did
    last_check,     \* main: last_check
    listed,         \* get_new_emails: the identifiers the list call returned
    list_result,    \* get_new_emails: what the list call did (history)
    fetched,        \* get_new_emails: what each get call did, in order (history)
    emails,         \* get_new_emails: emails
    k,              \* get_new_emails: position of the fetch loop
    i,              \* process_emails: position of the email loop
    j,              \* process_emails: position of the rule loop
    matched,        \* process_emails: matched
    sent_count,     \* process_emails: sent_count
    posts,          \* the webhook calls of this run, in order
    events,         \* the steps and remote calls of this run, in order
    parse_in,       \* the provider message handed to parse_email
    parse_out       \* what parse_email made of it

vars == <<pc, error, raised, clock, net, run, configFile, credEnv, tokenFile,
          secretFile, watermarkFile, watermark0, mailbox, config, auth,
          last_check, listed, list_result, fetched, emails, k, i, j, matched,
          sent_count, posts, events, parse_in, parse_out>>

files == <<configFile, credEnv, secretFile, watermark0>>

fetchVars == <<listed, list_result, fetched, emails, k>>

loopVars == <<i, j, matched, sent_count>>

parseVars == <<parse_in, parse_out>>

\* ------------------------------------------------------- remote outcomes
\* What a Gmail API call can do: answer, raise googleapiclient's HttpError (an
\* HTTP error status), or raise something else (no route to the host, a
\* timeout, a failed token refresh).
ApiOutcomes == IF net = "reliable" THEN {"ok"}
               ELSE {"ok", "HttpError", "TransportError"}

\* What requests.post can do: 204, another status, or raise.
DeliveryOutcomes ==
    IF net = "reliable" THEN {[kind |-> "response", code |-> StatusNoContent]}
    ELSE {[kind |-> "response", code |-> StatusNoContent],
          [kind |-> "response", code |-> 429],
          [kind |-> "exception", code |-> 0]}

Answers == IF net = "reliable" THEN {TRUE} ELSE BOOLEAN

\* "except HttpError" of get_new_emails (lines 134 and 140).
GmailHandlerCatchesMutant(exc) == FALSE

GmailHandlerCatches(exc) == exc = "HttpError"

\* "except Exception" of send_to_discord (line 248).
DiscordHandlerCatchesMutant(exc) == FALSE

DiscordHandlerCatches(exc) == TRUE

\* --------------------------------------------------------------- watermark
get_last_check_time(file, now) ==
    IF file.state = "time" THEN file.t ELSE now - LookbackSeconds

save_last_check_time(now) == [state |-> "time", t |-> now]

\* The provider's answer to q = 'after:<seconds>': the identifiers of the
\* messages received later than that, at most max_results of them.
ListAfter(box, after_date, max_results) ==
    Take(SelectSeq([n \in 1..Len(box) |-> box[n]],
                   LAMBDA m : m.received > after_date),
         max_results)

Ids(msgs) == [n \in 1..Len(msgs) |-> msgs[n].id]

MessageOf(id) == mailbox[CHOOSE n \in 1..Len(mailbox) : mailbox[n].id = id]

\* -------------------------------------------------------- send_to_discord
DefaultColorSpec == [kind |-> "str", chars |-> DefaultColor]

\* The call requests.post(webhook_url, json=payload) and what came of it.
Post(email, webhook_url, color, outcome, now) ==
    [email       |-> email.id,
     url         |-> webhook_url,
     title       |-> email.subject,
     color       |-> color,
     description |-> Take(email.snippet, SnippetLimit),
     timestamp   |-> now,
     outcome     |-> outcome]

\* send_to_discord from inside process_emails: the color is resolved before
\* the try block, so its ValueError leaves the function; what requests.post
\* raises is caught.  `then` is the rest of the caller's step.
Send(email, webhook_url, color, then) ==
    LET c == get_color_value(color) IN
    IF c.status # "ok"
    THEN /\ pc' = "except"
         /\ error' = c.status
         /\ UNCHANGED <<posts, events, loopVars>>
    ELSE \E outcome \in DeliveryOutcomes :
            /\ posts' = Append(posts, Post(email, webhook_url, c.value, outcome, clock))
            /\ events' = Append(events, "post")
            /\ IF outcome.kind = "exception" /\ ~DiscordHandlerCatches("RequestException")
               THEN /\ pc' = "except"
                    /\ error' = "RequestException"
                    /\ UNCHANGED loopVars
               ELSE then

\* ------------------------------------------------------------------- main
\* The statements of main's try block, in order (lines 292-308).
AfterMutant(step) ==
    CASE step = "load_config"    -> "authenticate"
      [] step = "authenticate"   -> "read_watermark"
      [] step = "read_watermark" -> "list"
      [] step = "get_new_emails" -> "save"
      [] step = "save"           -> "process"
      [] OTHER                   -> "done"

After(step) ==
    CASE step = "load_config"    -> "authenticate"
      [] step = "authenticate"   -> "read_watermark"
      [] step = "read_watermark" -> "list"
      [] step = "get_new_emails" -> "process"
      [] step = "process_emails" -> "save"
      [] OTHER                   -> "done"

\* What main's except block (lines 312-314) leaves in last_check.txt.
ExceptBlockMutant(file, now) == [state |-> "time", t |-> now]

ExceptBlock(file, now) == file

\* config = load_config()
LoadConfig ==
    /\ pc = "load_config"
    /\ events' = Append(events, "load_config")
    /\ IF configFile.state = "ok"
       THEN /\ config' = configFile.json
            /\ pc' = After("load_config")
            /\ error' = error
       ELSE /\ config' = config
            /\ pc' = "except"
            /\ error' = IF configFile.state = "missing" THEN "FileNotFoundError"
                                                        ELSE "JSONDecodeError"
    /\ UNCHANGED <<raised, clock, net, run, files, tokenFile, watermarkFile,
                   mailbox, auth, last_check, fetchVars, loopVars, posts, parseVars>>

\* service = get_gmail_service()
GetGmailService ==
    /\ pc = "authenticate"
    /\ \E refreshOK \in Answers, flowOK \in Answers :
          LET r == get_gmail_service(credEnv, tokenFile, secretFile, refreshOK, flowOK) IN
          /\ auth' = r
          /\ tokenFile' = r.tokenFile
          /\ IF r.outcome = "ok"
             THEN pc' = After("authenticate") /\ error' = error
             ELSE pc' = "except" /\ error' = r.error
    /\ events' = Append(events, "authenticate")
    /\ UNCHANGED <<raised, clock, net, run, files, watermarkFile, mailbox, config,
                   last_check, fetchVars, loopVars, posts, parseVars>>

\* last_check = get_last_check_time()
GetLastCheckTime ==
    /\ pc = "read_watermark"
    /\ last_check' = get_last_check_time(watermarkFile, clock)
    /\ events' = Append(events, "read_watermark")
    /\ pc' = After("read_watermark")
    /\ UNCHANGED <<error, raised, clock, net, run, files, tokenFile, watermarkFile,
                   mailbox, config, auth, fetchVars, loopVars, posts, parseVars>>

\* get_new_emails, the list call (lines 106-122 and 140-142)
ListMessages ==
    /\ pc = "list"
    /\ events' = Append(events, "list")
    /\ \E outcome \in ApiOutcomes :
          IF outcome = "ok"
          THEN LET messages == Ids(ListAfter(mailbox, last_check, MaxResults)) IN
               /\ listed' = messages
               /\ list_result' = "ok"
               /\ fetched' = <<>>
               /\ emails' = <<>>
               /\ k' = 1
               /\ pc' = IF messages = <<>> THEN After("get_new_emails") ELSE "fetch"
               /\ error' = error
          ELSE IF GmailHandlerCatches(outcome)
          THEN /\ listed' = <<>>
               /\ list_result' = outcome
               /\ fetched' = <<>>
               /\ emails' = <<>>
               /\ k' = 1
               /\ pc' = After("get_new_emails")
               /\ error' = error
          ELSE /\ pc' = "except"
               /\ error' = outcome
               /\ list_result' = outcome
               /\ UNCHANGED <<listed, fetched, emails, k>>
    /\ UNCHANGED <<raised, clock, net, run, files, tokenFile, watermarkFile, mailbox,
                   config, auth, last_check, loopVars, posts, parseVars>>

\* get_new_emails, one turn of the fetch loop (lines 126-138)
FetchOne ==
    /\ pc = "fetch"
    /\ k <= Len(listed)
    /\ events' = Append(events, "get")
    /\ \E outcome \in ApiOutcomes :
          LET parsed == parse_email(MessageOf(listed[k]).raw)
              exc == IF outcome # "ok" THEN outcome ELSE parsed.status
          IN
          /\ fetched' = Append(fetched, outcome)
          /\ IF outcome = "ok" /\ parsed.status = "ok"
             THEN /\ emails' = Append(emails, parsed)
                  /\ k' = k + 1
                  /\ pc' = IF k = Len(listed) THEN After("get_new_emails") ELSE "fetch"
                  /\ error' = error
             ELSE IF GmailHandlerCatches(exc)
             THEN /\ emails' = emails
                  /\ k' = k + 1
                  /\ pc' = IF k = Len(listed) THEN After("get_new_emails") ELSE "fetch"
                  /\ error' = error
             ELSE /\ pc' = "except"
                  /\ error' = exc
                  /\ UNCHANGED <<emails, k>>
    /\ UNCHANGED <<raised, clock, net, run, files, tokenFile, watermarkFile, mailbox,
                   config, auth, last_check, listed, list_result, loopVars, posts,
                   parseVars>>

\* ---------------------------------------------------------- process_emails
\* Line 264: every rule the email matches sends, whatever matched before.
RuleSendsMutant(email, keyword_config, already) ==
    ~already /\ match_keywords(email, keyword_config)

RuleSends(email, keyword_config, already) == match_keywords(email, keyword_config)

\* Line 274: "not matched and config.get('default_webhook')".
SendsDefaultMutant(already, cfg) ==
    Has(cfg, "default_webhook") /\ cfg.default_webhook # ""

SendsDefault(already, cfg) ==
    ~already /\ Has(cfg, "default_webhook") /\ cfg.default_webhook # ""

\* Where the email loop goes once email i is done with.
NextEmail ==
    IF i = Len(emails)
    THEN /\ pc' = After("process_emails")
         /\ UNCHANGED <<i, j, matched>>
    ELSE /\ i' = i + 1
         /\ j' = 1
         /\ matched' = FALSE
         /\ pc' = IF config.keywords = <<>> THEN "default" ELSE "rules"

\* process_emails, its entry (lines 254-260)
ProcessEmails ==
    /\ pc = "process"
    /\ IF emails = <<>>
       THEN /\ pc' = After("process_emails")
            /\ UNCHANGED loopVars
       ELSE /\ sent_count' = 0
            /\ i' = 1
            /\ j' = 1
            /\ matched' = FALSE
            /\ pc' = IF config.keywords = <<>> THEN "default" ELSE "rules"
    /\ UNCHANGED <<error, raised, clock, net, run, files, tokenFile, watermarkFile,
                   mailbox, config, auth, last_check, fetchVars, posts, events,
                   parseVars>>

\* process_emails, one turn of the rule loop (lines 263-271)
ProcessRule ==
    /\ pc = "rules"
    /\ LET email == emails[i]
           keyword_config == config.keywords[j]
           onward == IF j = Len(config.keywords) THEN "default" ELSE "rules"
       IN
       IF RuleSends(email, keyword_config, matched)
       THEN Send(email, keyword_config.webhook,
                 Get(keyword_config, "color", DefaultColorSpec),
                 /\ matched' = TRUE
                 /\ sent_count' = sent_count + 1
                 /\ j' = j + 1
                 /\ i' = i
                 /\ pc' = onward
                 /\ error' = error)
       ELSE /\ j' = j + 1
            /\ pc' = onward
            /\ UNCHANGED <<error, i, matched, sent_count, posts, events>>
    /\ UNCHANGED <<raised, clock, net, run, files, tokenFile, watermarkFile, mailbox,
                   config, auth, last_check, fetchVars, parseVars>>

\* process_emails, the default webhook of one email (lines 274-280)
ProcessDefault ==
    /\ pc = "default"
    /\ IF SendsDefault(matched, config)
       THEN Send(emails[i], config.default_webhook,
                 Get(config, "default_color", DefaultColorSpec),
                 /\ sent_count' = sent_count + 1
                 /\ error' = error
                 /\ NextEmail)
       ELSE /\ NextEmail
            /\ UNCHANGED <<error, sent_count, posts, events>>
    /\ UNCHANGED <<raised, clock, net, run, files, tokenFile, watermarkFile, mailbox,
                   config, auth, last_check, fetchVars, parseVars>>

\* save_last_check_time()
SaveLastCheckTime ==
    /\ pc = "save"
    /\ watermarkFile' = save_last_check_time(clock)
    /\ events' = Append(events, "write_watermark")
    /\ pc' = After("save")
    /\ UNCHANGED <<error, raised, clock, net, run, files, tokenFile, mailbox, config,
                   auth, last_check, fetchVars, loopVars, posts, parseVars>>

\* except Exception as e: print(...); raise
MainExcept ==
    /\ pc = "except"
    /\ watermarkFile' = ExceptBlock(watermarkFile, clock)
    /\ raised' = error
    /\ pc' = "failed"
    /\ UNCHANGED <<error, clock, net, run, files, tokenFile, mailbox, config, auth,
                   last_check, fetchVars, loopVars, posts, events, parseVars>>

\* ------------------------------------------------------------ environment
\* Time passes.
Tick ==
    /\ clock < MaxClock
    /\ clock' = clock + 1
    /\ UNCHANGED <<pc, error, raised, net, run, files, tokenFile, watermarkFile,
                   mailbox, config, auth, last_check, fetchVars, loopVars, posts,
                   events, parseVars>>

\* ------------------------------------------------------------ sample data
SubjInv == <<"I","n","v">>

SubjHi == <<"H","i">>

FromBob == <<"B"," ","<","b","@","x",">">>

FromAnn == <<"a","@","y">>

SomeDate == <<"M","o","n">>

TextA == <<"Q","Q","=","=">>

NotUtf8 == <<"_","w","=","=">>

\* A multipart mail with a plain-text part, as the provider sends it.
RawInvoice ==
    [id |-> 0,
     snippet |-> <<"h","i">>,
     payload |-> [headers |-> <<[name |-> "Subject", value |-> SubjInv],
                                [name |-> "From", value |-> FromBob],
                                [name |-> "Date", value |-> SomeDate]>>,
                  parts |-> <<[mimeType |-> "text/html", body |-> [data |-> TextA]],
                              [mimeType |-> "text/plain", body |-> [data |-> TextA]]>>]]

\* A single-part mail without a Date header and without a snippet.
RawHello ==
    [id |-> 0,
     payload |-> [headers |-> <<[name |-> "From", value |-> FromAnn],
                                [name |-> "Subject", value |-> SubjHi]>>,
                  body |-> [data |-> TextA]]]

\* A mail whose plain-text body is not UTF-8 (a legacy charset).
RawLegacy ==
    [id |-> 0,
     snippet |-> <<"h","i">>,
     payload |-> [headers |-> <<[name |-> "Subject", value |-> SubjInv],
                                [name |-> "From", value |-> FromAnn]>>,
                  body |-> [data |-> NotUtf8]]]

RawPool == {RawInvoice, RawHello, RawLegacy}

Green == [kind |-> "str", chars |-> <<"g","r","e","e","n">>]

Teal == [kind |-> "str", chars |-> <<"T","E","A","L">>]

BadHex == [kind |-> "str", chars |-> <<"#","z","z">>]

RuleInv == [keywords |-> << <<"I","N","V">> >>, webhook |-> "W1", color |-> Green]

RuleBob == [keywords |-> << <<"z","z">>, <<"B","@","x">> >>, webhook |-> "W1"]

RuleHi == [keywords |-> << <<"h","i">> >>, webhook |-> "W2", color |-> BadHex]

ConfigPool ==
    {[keywords |-> <<RuleInv, RuleBob>>, default_webhook |-> "W2", default_color |-> Teal],
     [keywords |-> <<RuleHi, RuleInv>>, default_webhook |-> ""],
     [keywords |-> <<>>, default_webhook |-> "W2"]}

NoConfig == [keywords |-> <<>>]

ConfigFiles ==
    {[state |-> "missing", json |-> NoConfig], [state |-> "malformed", json |-> NoConfig]}
    \cup {[state |-> "ok", json |-> c] : c \in ConfigPool}

Absent == [state |-> "absent", token |-> FALSE, expired |-> FALSE, refresh_token |-> FALSE]

Malformed == [state |-> "malformed", token |-> FALSE, expired |-> FALSE,
              refresh_token |-> FALSE]

\* Every credential a source can hold: expired only with a token to expire.
CredSlots ==
    {Absent, Malformed}
    \cup {c \in [state : {"creds"}, token : BOOLEAN, expired : BOOLEAN,
                 refresh_token : BOOLEAN] : c.expired => c.token}

Expired == [state |-> "creds", token |-> TRUE, expired |-> TRUE, refresh_token |-> TRUE]

\* The credential set-ups of a scheduled run: the secret variable, a cached
\* token to refresh, and nothing at all.
AuthPool ==
    {[env |-> FreshCreds, file |-> Absent, secret |-> FALSE],
     [env |-> Absent, file |-> Expired, secret |-> FALSE],
     [env |-> Absent, file |-> Absent, secret |-> FALSE]}

WatermarkFiles ==
    {[state |-> "absent", t |-> 0], [state |-> "corrupt", t |-> 0]}
    \cup {[state |-> "time", t |-> t] : t \in 0..1}

\* A mailbox of up to MaxMsgs different mails received at instant 1, numbered
\* in listing order.
Mailboxes ==
    UNION {{[n \in 1..m |-> [id |-> n, received |-> 1,
                              raw |-> [f[n] EXCEPT !.id = n]]] :
               f \in {g \in [1..m -> RawPool] :
                         \A a, b \in 1..m : g[a] = g[b] => a = b}} :
           m \in 0..MaxMsgs}

NoAuth == AuthResult("none", "", "none", FALSE, FALSE, FALSE, Absent)

\* The locals of main() before its first statement.
Fresh ==
    /\ error = ""
    /\ raised = ""
    /\ config = NoConfig
    /\ auth = NoAuth
    /\ last_check = 0
    /\ listed = <<>>
    /\ list_result = "none"
    /\ fetched = <<>>
    /\ emails = <<>>
    /\ k = 1
    /\ i = 1
    /\ j = 1
    /\ matched = FALSE
    /\ sent_count = 0
    /\ posts = <<>>
    /\ events = <<>>

NoParse == [status |-> "none"]

\* One run of main() over whatever the files, the mailbox and the network hold.
Init ==
    /\ pc = "load_config"
    /\ Fresh
    /\ clock = MaxClock - 1
    /\ net = "unreliable"
    /\ run = 1
    /\ configFile \in ConfigFiles
    /\ \E a \in AuthPool :
          /\ credEnv = a.env
          /\ tokenFile = a.file
          /\ secretFile = a.secret
    /\ watermarkFile \in WatermarkFiles
    /\ watermark0 = watermarkFile
    /\ mailbox \in Mailboxes
    /\ parse_in = RawHello
    /\ parse_out = NoParse

Next ==
    \/ LoadConfig
    \/ GetGmailService
    \/ GetLastCheckTime
    \/ ListMessages
    \/ FetchOne
    \/ ProcessEmails
    \/ ProcessRule
    \/ ProcessDefault
    \/ SaveLastCheckTime
    \/ MainExcept
    \/ Tick

Spec == Init /\ [][Next]_vars

\* ------------------------------------------------------- scheduled runs
\* A well-formed mail arrives at the provider.
Arrive ==
    /\ Len(mailbox) < MaxArrivals
    /\ mailbox' = Append(mailbox, [id |-> Len(mailbox) + 1, received |-> clock,
                                   raw |-> [RawHello EXCEPT !.id = Len(mailbox) + 1]])
    /\ UNCHANGED <<pc, error, raised, clock, net, run, files, tokenFile, watermarkFile,
                   config, auth, last_check, fetchVars, loopVars, posts, events,
                   parseVars>>

\* The scheduler starts the job again once the last run has ended.
NextRun ==
    /\ pc \in {"done", "failed"}
    /\ run < MaxRuns
    /\ run' = run + 1
    /\ pc' = "load_config"
    /\ error' = ""
    /\ raised' = ""
    /\ config' = NoConfig
    /\ auth' = NoAuth
    /\ last_check' = 0
    /\ listed' = <<>>
    /\ list_result' = "none"
    /\ fetched' = <<>>
    /\ emails' = <<>>
    /\ k' = 1
    /\ i' = 1
    /\ j' = 1
    /\ matched' = FALSE
    /\ sent_count' = 0
    /\ posts' = <<>>
    /\ events' = <<>>
    /\ watermark0' = watermarkFile
    /\ UNCHANGED <<clock, net, configFile, credEnv, secretFile, tokenFile,
                   watermarkFile, mailbox, parseVars>>

\* The job on a schedule, with a sound config, a working credential and a
\* network that answers, while mail keeps arriving.
InitRuns ==
    /\ pc = "load_config"
    /\ Fresh
    /\ clock = 0
    /\ net = "reliable"
    /\ run = 1
    /\ configFile = [state |-> "ok",
                     json |-> [keywords |-> <<RuleInv>>, default_webhook |-> "W2"]]
    /\ credEnv = FreshCreds
    /\ tokenFile = Absent
    /\ secretFile = FALSE
    /\ watermarkFile = [state |-> "absent", t |-> 0]
    /\ watermark0 = watermarkFile
    /\ mailbox = <<>>
    /\ parse_in = RawHello
    /\ parse_out = NoParse

NextRuns ==
    \/ LoadConfig
    \/ GetGmailService
    \/ GetLastCheckTime
    \/ ListMessages
    \/ FetchOne
    \/ ProcessEmails
    \/ ProcessRule
    \/ ProcessDefault
    \/ SaveLastCheckTime
    \/ Tick
    \/ Arrive
    \/ NextRun

SpecRuns == InitRuns /\ [][NextRuns]_vars

\* ------------------------------------------------------- get_gmail_service
\* get_gmail_service() alone, over every state of its three credential sources.
InitAuth ==
    /\ pc = "authenticate"
    /\ Fresh
    /\ clock = 0
    /\ net = "unreliable"
    /\ run = 1
    /\ configFile = [state |-> "ok", json |-> NoConfig]
    /\ credEnv \in CredSlots
    /\ tokenFile \in CredSlots
    /\ secretFile \in BOOLEAN
    /\ watermarkFile = [state |-> "absent", t |-> 0]
    /\ watermark0 = watermarkFile
    /\ mailbox = <<>>
    /\ parse_in = RawHello
    /\ parse_out = NoParse

NextAuth == GetGmailService

SpecAuth == InitAuth /\ [][NextAuth]_vars

\* -------------------------------------------------------------- parse_email
\* parse_email(message) on its own.
ParseEmail ==
    /\ parse_out = NoParse
    /\ parse_out' = parse_email(parse_in)
    /\ UNCHANGED <<pc, error, raised, clock, net, run, files, tokenFile, watermarkFile,
                   mailbox, config, auth, last_check, fetchVars, loopVars, posts,
                   events, parse_in>>

Padding(n) == [x \in 1..n |-> "="]

\* Body data: up to MaxDataLen base64 characters, then up to two "=".
DataSamples ==
    {d \o Padding(n) : d \in Strs({"Q", "_"}, MaxDataLen), n \in 0..2}

Bodies == {[size |-> 0]} \cup [size : {1}, data : DataSamples]

MimeTypes == {"text/plain", "text/html"}

\* A MIME part: its declared type and its body may each be missing.
Parts ==
    {[partId |-> "0"]}
    \cup [partId : {"0"}, mimeType : MimeTypes]
    \cup [partId : {"0"}, body : Bodies]
    \cup [partId : {"0"}, mimeType : MimeTypes, body : Bodies]

PartLists == UNION {[1..m -> Parts] : m \in 0..MaxParts}

HeaderLists ==
    {<<>>,
     <<[name |-> "Subject", value |-> SubjInv]>>,
     <<[name |-> "From", value |-> FromBob], [name |-> "Date", value |-> SomeDate]>>,
     <<[name |-> "Subject", value |-> SubjInv], [name |-> "Subject", value |-> SubjHi]>>,
     <<[name |-> "subject", value |-> SubjHi]>>}

\* A payload: the header list may be missing; it has parts, or a body, or neither.
Payloads ==
    {[partId |-> ""]}
    \cup [partId : {""}, headers : HeaderLists]
    \cup [partId : {""}, body : Bodies]
    \cup [partId : {""}, headers : HeaderLists, body : Bodies]
    \cup [partId : {""}, parts : PartLists]
    \cup [partId : {""}, headers : HeaderLists, parts : PartLists]

RawMessages ==
    [id : {1}, payload : Payloads]
    \cup [id : {1}, payload : Payloads, snippet : {<<"h","i">>}]

InitParse ==
    /\ pc = "parse"
    /\ Fresh
    /\ clock = 0
    /\ net = "reliable"
    /\ run = 1
    /\ configFile = [state |-> "ok", json |-> NoConfig]
    /\ credEnv = Absent
    /\ tokenFile = Absent
    /\ secretFile = FALSE
    /\ watermarkFile = [state |-> "absent", t |-> 0]
    /\ watermark0 = watermarkFile
    /\ mailbox = <<>>
    /\ parse_in \in RawMessages
    /\ parse_out = NoParse

NextParse == ParseEmail

SpecParse == InitParse /\ [][NextParse]_vars

\* ------------------------------------------------------------------ routing
\* process_emails(emails, config) alone, on one email and a generated config.
SubjectSamples == Strs({"b", "B"}, MaxStrLen)

FromSamples ==
    {<<>>, <<"B"," ","<","x",">">>, <<"b","<">>, <<"<",">","B",">">>}

Webhooks == {"W1", "W2"}

\* Rules with a mixed-case keyword, with two keywords (one that only an
\* unextracted sender holds, one that only an extracted address holds), with no
\* keyword, and with the empty keyword.
RuleSamples ==
    {[keywords |-> << <<"B","b">> >>, webhook |-> "W1"],
     [keywords |-> << <<"<">>, <<"x">> >>, webhook |-> "W2", color |-> Green],
     [keywords |-> <<>>, webhook |-> "W1"],
     [keywords |-> << <<>> >>, webhook |-> "W2"]}

RuleLists == UNION {[1..m -> RuleSamples] : m \in 0..MaxRules}

RoutingConfigs ==
    [keywords : RuleLists]
    \cup [keywords : RuleLists, default_webhook : {"", "W2"}]

ParsedSamples ==
    [status : {"ok"}, id : {1}, subject : SubjectSamples, from : FromSamples,
     date : {<<>>}, body : {<<>>}, snippet : {<<>>}]

InitRoute ==
    /\ pc = "process"
    /\ error = ""
    /\ raised = ""
    /\ config \in RoutingConfigs
    /\ auth = NoAuth
    /\ last_check = 0
    /\ listed = <<1>>
    /\ list_result = "ok"
    /\ fetched = <<"ok">>
    /\ emails \in {<<e>> : e \in ParsedSamples}
    /\ k = 2
    /\ i = 1
    /\ j = 1
    /\ matched = FALSE
    /\ sent_count = 0
    /\ posts = <<>>
    /\ events = <<>>
    /\ clock = 0
    /\ net = "reliable"
    /\ run = 1
    /\ configFile = [state |-> "ok", json |-> config]
    /\ credEnv = FreshCreds
    /\ tokenFile = Absent
    /\ secretFile = FALSE
    /\ watermarkFile = [state |-> "absent", t |-> 0]
    /\ watermark0 = watermarkFile
    /\ mailbox = <<>>
    /\ parse_in = RawHello
    /\ parse_out = NoParse

NextRoute ==
    \/ ProcessEmails
    \/ ProcessRule
    \/ ProcessDefault

SpecRoute == InitRoute /\ [][NextRoute]_vars

\* ------------------------------------------------------------------ claims
Range(f) == {f[n] : n \in DOMAIN f}

Count(f, x) == Cardinality({n \in DOMAIN f : f[n] = x})

Aborted == pc \in {"except", "failed"}

\* The (message, destination) pairs of the webhook calls made, in order.
Pairs(calls) == [n \in 1..Len(calls) |-> <<calls[n].email, calls[n].url>>]

\* The reference routing of section 4.3: a rule matches when one of its
\* keywords, lower-cased, is a substring of the lower-cased subject or of the
\* lower-cased address taken from the sender header.
RefMatches(email, rule) ==
    \E kw \in Range(rule.keywords) :
        \/ Contains(Lower(email.subject), Lower(kw))
        \/ Contains(Lower(extract_email_address(email.from)), Lower(kw))

HasDefault(cfg) == Has(cfg, "default_webhook") /\ cfg.default_webhook # ""

RefRoute(email, cfg) ==
    LET hits == SelectSeq(cfg.keywords, LAMBDA rule : RefMatches(email, rule)) IN
    IF hits # <<>> THEN [n \in 1..Len(hits) |-> hits[n].webhook]
    ELSE IF HasDefault(cfg) THEN <<cfg.default_webhook>>
    ELSE <<>>

RECURSIVE RefPairs(_, _, _)
RefPairs(msgs, cfg, n) ==
    IF n = 0 THEN <<>>
    ELSE LET route == RefRoute(msgs[n], cfg) IN
         RefPairs(msgs, cfg, n - 1)
         \o [m \in 1..Len(route) |-> <<msgs[n].id, route[m]>>]

\* C1: a run that an error leaves before the checkpoint never writes the
\* watermark: last_check.txt is as the run found it, no write happened, and the
\* error that ended the run is the one re-raised to the process boundary.
ErrorLeavesWatermark ==
    Aborted =>
        /\ watermarkFile = watermark0
        /\ "write_watermark" \notin Range(events)
        /\ error # ""
        /\ (pc = "failed" => raised = error)

\* A run that had already posted one mail dies of a rule's color.
ErrorLeavesWatermarkWitness ==
    /\ pc = "failed"
    /\ raised = "ValueError"
    /\ posts # <<>>
    /\ watermark0.state = "time"

\* C2: a delivery that is answered with another status than 204, or that
\* raises, never ends the run: no run is aborted by a delivery, and a run that
\* ends has attempted every routed (message, destination) delivery and written
\* the watermark, whichever deliveries failed.
DeliveryFailuresNotFatal ==
    /\ Aborted => error # "RequestException"
    /\ (Aborted /\ list_result = "ok" /\ k > Len(listed)) => error = "ValueError"
    /\ pc = "done" =>
          /\ Pairs(posts) = RefPairs(emails, config, Len(emails))
          /\ watermarkFile.state = "time"
          /\ events # <<>>
          /\ events[Len(events)] = "write_watermark"

\* A run ends after a delivery raised, a later one got 429 and a last one 204.
DeliveryFailuresNotFatalWitness ==
    /\ pc = "done"
    /\ \E a, b, c \in 1..Len(posts) :
          /\ a < b
          /\ b < c
          /\ posts[a].outcome.kind = "exception"
          /\ posts[b].outcome.code = 429
          /\ posts[c].outcome.code = StatusNoContent

FetchLoopTolerant ==
    (list_result = "ok" /\ Range(fetched) \subseteq {"ok", "HttpError"}) =>
        /\ ~(Aborted /\ k <= Len(listed))
        /\ Len(fetched) = Len(listed) =>
              Ids(emails) = SelectSeq(listed,
                                      LAMBDA id : \E n \in 1..Len(listed) :
                                                     listed[n] = id /\ fetched[n] = "ok")

\* C5: the destinations process_emails posts one email to are the reference
\* routing: one per matching rule in config order, else the default if one is
\* configured, else none; and routing raises nothing.
RoutingMatchesReference ==
    LET reference == RefPairs(emails, config, Len(emails)) IN
    /\ ~Aborted
    /\ Len(posts) <= Len(reference)
    /\ Pairs(posts) = SubSeq(reference, 1, Len(posts))
    /\ pc = "save" => Pairs(posts) = reference

\* An email went to two different destinations, the second rule after the first.
RoutingMatchesReferenceWitness ==
    /\ pc = "save"
    /\ Len(posts) = 2
    /\ posts[1].url # posts[2].url

\* C6 as stated: no message is posted to the same destination twice in a run.
OnePostPerDestination ==
    \A a, b \in 1..Len(posts) :
        (posts[a].email = posts[b].email /\ posts[a].url = posts[b].url) => a = b

PostsTo(id, url) ==
    Cardinality({n \in 1..Len(posts) : posts[n].email = id /\ posts[n].url = url})

\* C6, amended: a run that ends has posted each message to each destination
\* once per matching rule that names the destination, or once to the default
\* destination when no rule matched and a default is configured.
OnePostPerMatchingRule ==
    pc = "done" =>
        \A n \in 1..Len(emails), url \in Webhooks :
            LET hits == {m \in 1..Len(config.keywords) :
                            RefMatches(emails[n], config.keywords[m])}
            IN PostsTo(emails[n].id, url) =
                  IF hits # {}
                  THEN Cardinality({m \in hits : config.keywords[m].webhook = url})
                  ELSE IF HasDefault(config) /\ config.default_webhook = url THEN 1
                  ELSE 0

\* A run ends having posted one message twice to one destination.
OnePostPerMatchingRuleWitness ==
    /\ pc = "done"
    /\ \E a, b \in 1..Len(posts) :
          a # b /\ posts[a].email = posts[b].email /\ posts[a].url = posts[b].url

\* C7: parse_email never raises: whatever the provider message lacks, it
\* returns a record with the placeholders in the missing fields.
ParseEmailTotal ==
    parse_out # NoParse =>
        /\ parse_out.status = "ok"
        /\ parse_out.subject # <<>>
        /\ parse_out.from # <<>>
        /\ (~Has(parse_in.payload, "headers") =>
               /\ parse_out.subject = NoSubject
               /\ parse_out.from = UnknownSender
               /\ parse_out.date = <<>>)
        /\ (~Has(parse_in, "snippet") => parse_out.snippet = <<>>)

Usable(c) == c.state = "creds" /\ (Valid(c) \/ (c.expired /\ c.refresh_token))

\* C8 as stated, for the calls that do not start the interactive flow:
\* authentication fails only when neither the environment blob nor the cached
\* token file gives a usable credential (valid, or expired and silently
\* refreshed) and the client-secret file is absent.
AuthFailsOnlyWithoutSource ==
    (auth.outcome = "raise" /\ ~auth.flow) =>
        LET gives(c) == /\ c.state = "creds"
                        /\ \/ Valid(c)
                           \/ c.expired /\ c.refresh_token /\ auth.error # "RefreshError"
        IN /\ ~gives(credEnv)
           /\ ~gives(tokenFile)
           /\ ~secretFile

\* C8, amended: get_gmail_service reads the environment blob when it is set
\* and the token file only when it is not; a credential that is expired and
\* has a refresh token is refreshed, without the interactive flow; and the
\* call fails exactly when the source it read is malformed, the refresh is
\* refused, the interactive flow fails, or the source it read gives no valid
\* or refreshable credential and the client-secret file is absent.
AuthContract ==
    [][(pc = "authenticate" /\ pc' # "authenticate") =>
          LET r == auth'
              slot == IF credEnv.state # "absent" THEN credEnv ELSE tokenFile
          IN
          /\ r.source = IF credEnv.state # "absent" THEN "env"
                        ELSE IF tokenFile.state # "absent" THEN "file"
                        ELSE "none"
          /\ (slot.state = "creds" /\ ~Valid(slot) /\ slot.expired /\ slot.refresh_token)
                => (r.refreshed /\ ~r.flow)
          /\ (slot.state = "creds" /\ Valid(slot))
                => (r.outcome = "ok" /\ ~r.refreshed /\ ~r.flow /\ ~r.written)
          /\ (~Usable(slot) /\ slot.state # "malformed" /\ ~secretFile)
                => (r.outcome = "raise" /\ r.error = "FileNotFoundError")
          /\ r.outcome = "raise" =>
                \/ slot.state = "malformed"
                \/ r.error = "RefreshError" /\ r.refreshed
                \/ r.error = "FlowError" /\ r.flow /\ secretFile
                \/ ~Usable(slot) /\ ~secretFile
          /\ (r.outcome = "ok") = (pc' = "read_watermark")
          /\ r.written => tokenFile' = r.tokenFile /\ Valid(tokenFile')
       ]_vars

\* An expired credential from the token file was refreshed and written back.
AuthContractWitness ==
    /\ pc = "read_watermark"
    /\ auth.source = "file"
    /\ auth.refreshed
    /\ ~auth.flow
    /\ credEnv.state = "absent"
    /\ Valid(tokenFile)

Rank(what) ==
    CASE what = "load_config"     -> 1
      [] what = "authenticate"    -> 2
      [] what = "read_watermark"  -> 3
      [] what = "list"            -> 4
      [] what = "get"             -> 5
      [] what = "post"            -> 6
      [] what = "write_watermark" -> 7

\* C9: the steps of a run come in the order config load, authentication,
\* watermark read, list, fetches, deliveries, watermark write: the mailbox is
\* called only after config load and authentication succeeded and the
\* watermark was read once; a webhook only after the fetch loop ended; and the
\* watermark is written at most once, as the last thing of all.
StepsInOrder ==
    /\ \A a, b \in 1..Len(events) : a < b => Rank(events[a]) <= Rank(events[b])
    /\ \A what \in {"load_config", "authenticate", "read_watermark", "list",
                    "write_watermark"} : Count(events, what) <= 1
    /\ ("list" \in Range(events) \/ "get" \in Range(events)) =>
          /\ configFile.state = "ok"
          /\ config = configFile.json
          /\ auth.outcome = "ok"
          /\ Count(events, "read_watermark") = 1
    /\ "post" \in Range(events) =>
          /\ list_result = "ok"
          /\ Len(fetched) = Len(listed)
          /\ Count(events, "get") = Len(listed)
    /\ Count(events, "post") = Len(posts)
    /\ "write_watermark" \in Range(events) =>
          /\ events[Len(events)] = "write_watermark"
          /\ pc = "done"

\* A whole run: mail fetched, two deliveries, then the checkpoint.
StepsInOrderWitness ==
    /\ pc = "done"
    /\ Count(events, "get") = 2
    /\ Count(events, "post") >= 2

\* C10: when a run whose list call answered with fewer than 50 identifiers and
\* whose fetches all succeeded writes watermark W, it has fetched every message
\* received after the watermark it read and before W.
WatermarkIsBoundary ==
    (/\ pc = "done"
     /\ list_result = "ok"
     /\ Len(listed) < MaxResults
     /\ Len(emails) = Len(listed))
    => \A n \in 1..Len(mailbox) :
          (last_check < mailbox[n].received /\ mailbox[n].received < watermarkFile.t)
             => mailbox[n].id \in Range(Ids(emails))

====
